---- MODULE Spec2Model ----
(***************************************************************************)
(* A model of seedwing-policy's linker (Linker::link) and of the command   *)
(* line test harness (TestPlan / TestCase::run).                           *)
(*                                                                         *)
(* Linker::link is modelled loop iteration by loop iteration: the per-unit *)
(* qualification loop (phase 1), the census of world names (phase 2), the  *)
(* inter-unit check (phase 3) and the construction of the runtime          *)
(* (phase 4).  A todo!() of the source is a panic: the link neither        *)
(* returns Ok nor Err.                                                     *)
(***************************************************************************)
EXTENDS Integers, Sequences, FiniteSets, TLC

VARIABLES
    input,          \* the units handed to Linker::new, kept to link them again
    packages,       \* Linker.packages: package path -> sequence of function names
    units,          \* Linker.units, qualified in place by phase 1
    pkgOrder,       \* the iteration order of the packages HashMap in this link
    pc,             \* the position of link
    i,              \* the index of the unit the current loop is at
    visible_types,  \* the local visible_types of the unit phase 1 handled last
    world,          \* the local Vec<TypeName> world
    runtime,        \* the Runtime under construction
    panic,          \* what the todo!() that ended the link was about
    prev,           \* the outcome of an earlier link of the same input
    calls,          \* the calls of define and define_function this link has made
    tests,          \* TestPlan.tests
    next,           \* the index of the test TestPlan::run is at
    http            \* the request the evaluate handler serves, and its response

linkVars == <<input, packages, units, pkgOrder, pc, i, visible_types, world,
              runtime, panic, prev, calls>>
testVars == <<tests, next>>
httpVars == <<http>>
vars == <<input, packages, units, pkgOrder, pc, i, visible_types, world,
          runtime, panic, prev, calls, tests, next, http>>

---------------------------------------------------------------------------
(* Bounds of the inputs.                                                   *)

MaxUnits == 2
MaxUses == 2
MaxDefs == 2

SeqsUpTo(S, n) == UNION {[1..k -> S] : k \in 0..n}

SeqsFrom(S, lo, hi) == UNION {[1..k -> S] : k \in lo..hi}

Range(s) == {s[k] : k \in DOMAIN s}

Perms(S) == {s \in [1..Cardinality(S) -> S] : \A x \in S : \E k \in DOMAIN s : s[k] = x}

---------------------------------------------------------------------------
(* Names and paths.                                                        *)

NoPkg == ""

\* TypeName::new(name): a bare, unqualified name
TypeName_new(name) == [pkg |-> NoPkg, name |-> name]

\* PackagePath::type_name(leaf): the name qualified by the package
type_name(path, leaf) == [pkg |-> path, name |-> leaf]

\* TypeName::is_qualified
is_qualified(ty) == ty.pkg # NoPkg

\* PackagePath::from(unit.source())
PackagePath_from(source) == source

\* Option<Located<TypeName>>: None is the empty set, Some(t) is {t}
None == {}

Some(t) == {t}

---------------------------------------------------------------------------
(* HashMap<String, Option<Located<TypeName>>>.                             *)

EmptyMap == [k \in {} |-> None]

insert(m, k, v) == [x \in (DOMAIN m) \cup {k} |-> IF x = k THEN v ELSE m[x]]

contains_key(m, k) == k \in DOMAIN m

\* Iterator::collect into a HashMap: a later pair replaces an earlier one
RECURSIVE collect(_)
collect(pairs) ==
    IF pairs = <<>> THEN EmptyMap
    ELSE LET last == pairs[Len(pairs)]
         IN insert(collect(SubSeq(pairs, 1, Len(pairs) - 1)), last[1], last[2])

---------------------------------------------------------------------------
(* Phase 1: per-unit visibility and qualification.                         *)

\* unit.uses().iter().map(..).chain(unit.types().iter().map(..)).collect()
collect_visible(unit) ==
    collect([k \in 1..Len(unit.uses) |->
                <<unit.uses[k].as_name, Some(unit.uses[k].type_name)>>]
            \o
            [k \in 1..Len(unit.types) |->
                <<unit.types[k].name, Some(TypeName_new(unit.types[k].name))>>])

\* a plausible slip: entry(name).or_insert(..) keeps what the table already holds
RECURSIVE insert_local_definitions_or_insert(_, _, _)
insert_local_definitions_or_insert(m, defs, unit_path) ==
    IF defs = <<>> THEN m
    ELSE LET d == defs[Len(defs)]
             rest == insert_local_definitions_or_insert(
                         m, SubSeq(defs, 1, Len(defs) - 1), unit_path)
         IN IF contains_key(rest, d.name) THEN rest
            ELSE insert(rest, d.name, Some(type_name(unit_path, d.name)))

\* for defn in unit.types() { visible_types.insert(name, Some(unit_path.type_name(name))) }
RECURSIVE insert_local_definitions(_, _, _)
insert_local_definitions(m, defs, unit_path) ==
    IF defs = <<>> THEN m
    ELSE LET d == defs[Len(defs)]
         IN insert(insert_local_definitions(m, SubSeq(defs, 1, Len(defs) - 1), unit_path),
                   d.name, Some(type_name(unit_path, d.name)))

\* the whole table of one unit
build_visible_types(unit) ==
    insert_local_definitions(insert(collect_visible(unit), "int", None),
                             unit.types, PackagePath_from(unit.source))

\* TypeDefinition::referenced_types
referenced_types(defn) == defn.refs

\* the places <<j, k>> of the references of a unit: reference k of definition j
RefPlaces(unit) ==
    UNION {{<<j, k>> : k \in DOMAIN referenced_types(unit.types[j])} : j \in DOMAIN unit.types}

Before(p, q) == p[1] < q[1] \/ (p[1] = q[1] /\ p[2] < q[2])

FirstOf(places) == CHOOSE p \in places : \A q \in places : q = p \/ Before(p, q)

\* the references the check of lines 62-73 stops at
unknown_places(unit, visible) ==
    {p \in RefPlaces(unit) :
        LET ty == referenced_types(unit.types[p[1]])[p[2]]
        IN ~is_qualified(ty) /\ ~contains_key(visible, ty.name)}

\* TypeDefinition::qualify_types: an unqualified reference becomes what the
\* table holds for it; None (a primordial) and a qualified reference stay
qualify_ref(ty, visible) ==
    IF is_qualified(ty) \/ ~contains_key(visible, ty.name) \/ visible[ty.name] = None
    THEN ty
    ELSE CHOOSE t \in visible[ty.name] : TRUE

qualify_types(defn, visible) ==
    [defn EXCEPT !.refs = [k \in DOMAIN defn.refs |-> qualify_ref(defn.refs[k], visible)]]

---------------------------------------------------------------------------
(* Phases 2 to 4.                                                          *)

\* package_path.type_name(e.clone()), line 98
census_function_name(path, fn_name) == type_name(path, fn_name)

\* lines 84-103: "int", then the function names of every package in the
\* order the HashMap yields the packages
RECURSIVE census_packages(_, _)
census_packages(order, pkgs) ==
    IF order = <<>> THEN <<TypeName_new("int")>>
    ELSE LET path == order[Len(order)]
         IN census_packages(SubSeq(order, 1, Len(order) - 1), pkgs)
            \o [k \in DOMAIN pkgs[path] |-> census_function_name(path, pkgs[path][k])]

\* lines 109-113: the qualified names of the definitions of one unit
unit_types(unit) ==
    [k \in DOMAIN unit.types |->
        type_name(PackagePath_from(unit.source), unit.types[k].name)]

\* a plausible slip: the leaf names are compared, the packages are not
world_contains_leaf(w, ty) == \E k \in DOMAIN w : w[k].name = ty.name

\* Vec::contains, line 125
world_contains(w, ty) == \E k \in DOMAIN w : w[k] = ty

\* the references of a unit the check of lines 119-131 stops at
missing_places(unit, w) ==
    {p \in RefPlaces(unit) :
        ~world_contains(w, referenced_types(unit.types[p[1]])[p[2]])}

\* Runtime::new
Runtime_new == [types |-> EmptyMap, functions |-> EmptyMap]

\* Runtime::define / define_function: a name is defined once, a second
\* definition of it is refused (the caller drops what define returns)
define(dict, name, value) ==
    IF contains_key(dict, name) THEN dict ELSE insert(dict, name, value)

\* lines 140-149 for one unit: define every definition under its qualified name
RECURSIVE define_unit(_, _, _, _)
define_unit(dict, unit, u, n) ==
    IF n = 0 THEN dict
    ELSE define(define_unit(dict, unit, u, n - 1),
                type_name(PackagePath_from(unit.source), unit.types[n].name),
                [unit |-> u, defn |-> n, refs |-> referenced_types(unit.types[n])])

\* a plausible slip: the iterator skips the first definition of the unit
define_calls_skip_first(unit, u) ==
    LET all == [k \in DOMAIN unit.types |->
                   [op |-> "define", unit |-> u, defn |-> k,
                    name |-> type_name(PackagePath_from(unit.source), unit.types[k].name)]]
    IN SubSeq(all, 2, Len(all))

\* lines 140-149: the calls runtime.define(path, ty) of one unit, one for
\* each definition in the order of unit.types()
define_calls(unit, u) ==
    [k \in DOMAIN unit.types |->
        [op |-> "define", unit |-> u, defn |-> k,
         name |-> type_name(PackagePath_from(unit.source), unit.types[k].name)]]

\* a plausible slip: the function is defined under its bare name
function_path_bare(path, fn_name) == TypeName_new(fn_name)

\* path.type_name(fn_name), line 154
function_path(path, fn_name) == type_name(path, fn_name)

\* lines 153-156 for one package
RECURSIVE define_package(_, _, _, _)
define_package(dict, path, names, n) ==
    IF n = 0 THEN dict
    ELSE define(define_package(dict, path, names, n - 1),
                function_path(path, names[n]),
                [package |-> path, function |-> names[n]])

\* lines 152-157: the calls runtime.define_function(path, func), one for each
\* function of each package
RECURSIVE define_function_calls(_, _)
define_function_calls(order, pkgs) ==
    IF order = <<>> THEN <<>>
    ELSE LET path == order[Len(order)]
         IN define_function_calls(SubSeq(order, 1, Len(order) - 1), pkgs)
            \o [k \in DOMAIN pkgs[path] |->
                   [op |-> "define_function", package |-> path, index |-> k,
                    name |-> function_path(path, pkgs[path][k])]]

\* lines 152-157: every package in the order the HashMap yields them
RECURSIVE define_functions(_, _, _)
define_functions(dict, order, pkgs) ==
    IF order = <<>> THEN dict
    ELSE LET path == order[Len(order)]
         IN define_package(define_functions(dict, SubSeq(order, 1, Len(order) - 1), pkgs),
                           path, pkgs[path], Len(pkgs[path]))

---------------------------------------------------------------------------
(* The inputs: compilation units as the parser leaves them, and packages.   *)

int == TypeName_new("int")

\* a reference, or none
OptRef(pool) == {<<>>} \cup {<<r>> : r \in pool}

\* one unit with uses: its definitions refer to bare names only
IntraRefs == {TypeName_new("T"), TypeName_new("U"), int, TypeName_new("string")}

\* a definition with one reference or none, or with the two references U and T
IntraDefs == [name : {"T", "U"},
              refs : OptRef(IntraRefs) \cup {<<TypeName_new("U"), TypeName_new("T")>>}]

IntraUses == [as_name : {"T"}, type_name : {type_name("a", "f"), type_name("b", "U")}]

IntraUnits ==
    {<<[source |-> "a", uses |-> us, types |-> ds]>> :
        us \in SeqsUpTo(IntraUses, MaxUses), ds \in SeqsUpTo(IntraDefs, MaxDefs)}

IntraPackages == {[p \in {"a"} |-> <<"f">>]}

\* several units without uses, of one definition each, that refer to one another
InterRefs == {TypeName_new("T"), type_name("a", "T"), type_name("b", "U"),
              type_name("a", "f")}

InterDefs == [name : {"T", "U"}, refs : OptRef(InterRefs)]

InterUnit == [source : {"a", "b"}, uses : {<<>>}, types : {<<d>> : d \in InterDefs}]

InterUnits == SeqsFrom(InterUnit, 1, MaxUnits)

InterPackages == {[p \in {"a", "b"} |-> <<"f">>],
                  [p \in {"a", "b"} |-> IF p = "a" THEN <<"T">> ELSE <<"f">>]}

NoPanic == [phase |-> 0, unit |-> 0, name |-> TypeName_new("")]

NoTests == <<>>

\* no request is being served
NoRequest == [method |-> "none"]

\* the locals of link before its first statement
LinkStart(order) ==
    /\ pkgOrder' = order
    /\ pc' = "phase1"
    /\ i' = 1
    /\ visible_types' = EmptyMap
    /\ world' = <<>>
    /\ runtime' = Runtime_new
    /\ calls' = <<>>
    /\ panic' = NoPanic

\* Linker::new(units, packages), and link about to run
Init ==
    /\ \/ input \in IntraUnits /\ packages \in IntraPackages
       \/ input \in InterUnits /\ packages \in InterPackages
    /\ units = input
    /\ pkgOrder \in Perms(DOMAIN packages)
    /\ pc = "phase1"
    /\ i = 1
    /\ visible_types = EmptyMap
    /\ world = <<>>
    /\ runtime = Runtime_new
    /\ panic = NoPanic
    /\ prev = {}
    /\ calls = <<>>
    /\ tests = NoTests
    /\ next = 0
    /\ http = NoRequest

\* the loop head of a per-unit loop: at a unit, or past the last one
AtUnit(phase) == pc = phase /\ i <= Len(units)

Advance(phase, after) ==
    IF i < Len(units) THEN pc' = phase /\ i' = i + 1
    ELSE pc' = after /\ i' = 1

\* lines 24-80 for a unit with no unknown bare reference
Phase1_Unit ==
    /\ AtUnit("phase1")
    /\ LET visible == build_visible_types(units[i])
       IN /\ unknown_places(units[i], visible) = {}
          /\ visible_types' = visible
          /\ units' = [units EXCEPT ![i].types =
                          [k \in DOMAIN @ |-> qualify_types(@[k], visible)]]
    /\ Advance("phase1", "census_packages")
    /\ UNCHANGED <<input, packages, pkgOrder, world, runtime, calls, panic, prev>>
    /\ UNCHANGED testVars
    /\ UNCHANGED httpVars

\* lines 66-72: todo!("unknown type referenced") at the first unknown reference
Phase1_Todo ==
    /\ AtUnit("phase1")
    /\ LET visible == build_visible_types(units[i])
           unknown == unknown_places(units[i], visible)
       IN /\ unknown # {}
          /\ visible_types' = visible
          /\ panic' = [phase |-> 1, unit |-> i,
                       name |-> LET p == FirstOf(unknown)
                                IN referenced_types(units[i].types[p[1]])[p[2]]]
    /\ pc' = "panicked"
    /\ UNCHANGED <<input, packages, units, pkgOrder, i, world, runtime, calls, prev>>
    /\ UNCHANGED testVars
    /\ UNCHANGED httpVars

\* lines 84-103
Census_Packages ==
    /\ pc = "census_packages"
    /\ world' = census_packages(pkgOrder, packages)
    /\ pc' = "census_units"
    /\ UNCHANGED <<input, packages, units, pkgOrder, i, visible_types, runtime, calls, panic, prev>>
    /\ UNCHANGED testVars
    /\ UNCHANGED httpVars

\* a plausible slip: the inter-unit check starts once the first unit is counted
census_done_after_first(k, us) == k >= 1

\* the loop of lines 105-116 has run for every unit before line 119 is reached
census_done(k, us) == k >= Len(us)

\* lines 105-116 for one unit
Census_Unit ==
    /\ AtUnit("census_units")
    /\ world' = world \o unit_types(units[i])
    /\ IF census_done(i, units) THEN pc' = "check" /\ i' = 1
       ELSE pc' = "census_units" /\ i' = i + 1
    /\ UNCHANGED <<input, packages, units, pkgOrder, visible_types, runtime, calls, panic, prev>>
    /\ UNCHANGED testVars
    /\ UNCHANGED httpVars

\* lines 119-131 for a unit all of whose references are in world
Check_Unit ==
    /\ AtUnit("check")
    /\ missing_places(units[i], world) = {}
    /\ Advance("check", "define")
    /\ UNCHANGED <<input, packages, units, pkgOrder, visible_types, world, runtime, calls, panic, prev>>
    /\ UNCHANGED testVars
    /\ UNCHANGED httpVars

\* lines 125-128: todo!("failed to inter-unit link") at the first missing reference
Check_Todo ==
    /\ AtUnit("check")
    /\ LET missing == missing_places(units[i], world)
       IN /\ missing # {}
          /\ panic' = [phase |-> 3, unit |-> i,
                       name |-> LET p == FirstOf(missing)
                                IN referenced_types(units[i].types[p[1]])[p[2]]]
    /\ pc' = "panicked"
    /\ UNCHANGED <<input, packages, units, pkgOrder, i, visible_types, world, runtime, calls, prev>>
    /\ UNCHANGED testVars
    /\ UNCHANGED httpVars

\* lines 137-150 for one unit
Define_Unit ==
    /\ AtUnit("define")
    /\ runtime' = [runtime EXCEPT !.types =
                      define_unit(@, units[i], i, Len(units[i].types))]
    /\ calls' = calls \o define_calls(units[i], i)
    /\ Advance("define", "define_functions")
    /\ UNCHANGED <<input, packages, units, pkgOrder, visible_types, world, panic, prev>>
    /\ UNCHANGED testVars
    /\ UNCHANGED httpVars

\* lines 152-159: the functions of every package, and Ok(runtime)
Define_Functions ==
    /\ pc = "define_functions"
    /\ runtime' = [runtime EXCEPT !.functions = define_functions(@, pkgOrder, packages)]
    /\ calls' = calls \o define_function_calls(pkgOrder, packages)
    /\ pc' = "done"
    /\ UNCHANGED <<input, packages, units, pkgOrder, i, visible_types, world, panic, prev>>
    /\ UNCHANGED testVars
    /\ UNCHANGED httpVars

\* what a link ended with
Outcome == [result |-> pc, runtime |-> runtime, panic |-> panic, order |-> pkgOrder]

\* Linker::new with the same units and packages, linked once more; the
\* HashMap may yield the packages in another order
Relink ==
    /\ pc \in {"done", "panicked"}
    /\ prev = {}
    /\ prev' = {Outcome}
    /\ units' = input
    /\ \E order \in Perms(DOMAIN packages) : LinkStart(order)
    /\ UNCHANGED <<input, packages>>
    /\ UNCHANGED testVars
    /\ UNCHANGED httpVars

Next ==
    \/ Phase1_Unit
    \/ Phase1_Todo
    \/ Census_Packages
    \/ Census_Unit
    \/ Check_Unit
    \/ Check_Todo
    \/ Define_Unit
    \/ Define_Functions
    \/ Relink

Spec == Init /\ [][Next]_vars

---------------------------------------------------------------------------
(* What a link returns, and what the claims speak about.                   *)

\* the Result link returns: Ok(runtime) at line 159; no statement of link
\* builds an Err, a todo!() unwinds without returning
link_result == IF pc = "done" THEN "Ok" ELSE "none"

Finished == pc \in {"done", "panicked"}

UnitIds == DOMAIN input

LocalNames(unit) == {unit.types[k].name : k \in DOMAIN unit.types}

Aliases(unit) == {unit.uses[k].as_name : k \in DOMAIN unit.uses}

Primordials == {"int", "decimal", "string", "boolean"}

RefAt(us, u, p) == referenced_types(us[u].types[p[1]])[p[2]]

\* the qualified names the units define, and those the packages provide
DefinedNames == UNION {Range(unit_types(input[u])) : u \in UnitIds}

FunctionNames ==
    UNION {{type_name(path, f) : f \in Range(packages[path])} : path \in DOMAIN packages}

\* the references the definitions placed in the world hold
PlacedRefs == UNION {Range(runtime.types[n].refs) : n \in DOMAIN runtime.types}

Dictionaries == (DOMAIN runtime.types) \cup (DOMAIN runtime.functions)

\* the units phase 1 of this link has qualified
QualifiedCount ==
    IF pc = "phase1" THEN i - 1
    ELSE IF pc = "panicked" /\ panic.phase = 1 THEN panic.unit - 1
    ELSE Len(units)

\* the unit whose table visible_types holds, 0 before the first
TableOf ==
    IF pc = "phase1" THEN i - 1
    ELSE IF pc = "panicked" /\ panic.phase = 1 THEN panic.unit
    ELSE Len(units)

---------------------------------------------------------------------------
---------------------------------------------------------------------------
(* The errors of an input: what phases 1 to 3 are to detect in every unit.  *)

\* the last use of an alias is the one collect keeps
LastUse(unit, alias) ==
    unit.uses[CHOOSE k \in DOMAIN unit.uses :
                 /\ unit.uses[k].as_name = alias
                 /\ \A m \in DOMAIN unit.uses : unit.uses[m].as_name = alias => m <= k]

\* a bare name that is no primordial, no alias and no local definition
UnknownBare(unit, r) ==
    /\ ~is_qualified(r)
    /\ r.name \notin Primordials \cup Aliases(unit) \cup LocalNames(unit)

\* the unresolved-name errors of phase 1: one for each such reference
UnresolvedInUnit ==
    UNION {{[kind |-> "UnresolvedNameInUnit", unit |-> u, defn |-> p[1], ref |-> p[2],
             name |-> RefAt(input, u, p)] :
               p \in {q \in RefPlaces(input[u]) : UnknownBare(input[u], RefAt(input, u, q))}} :
           u \in UnitIds}

\* what a bare reference of a unit stands for
Target(unit, r) ==
    IF is_qualified(r) THEN r
    ELSE IF r.name \in LocalNames(unit) THEN type_name(PackagePath_from(unit.source), r.name)
    ELSE IF r.name \in Aliases(unit) THEN LastUse(unit, r.name).type_name
    ELSE r

\* the unresolved-name errors of phase 3: a qualified name nobody defines
UnresolvedInWorld ==
    UNION {{[kind |-> "UnresolvedNameInWorld", unit |-> u, defn |-> p[1], ref |-> p[2],
             name |-> Target(input[u], RefAt(input, u, p))] :
               p \in {q \in RefPlaces(input[u]) :
                         LET t == Target(input[u], RefAt(input, u, q))
                         IN is_qualified(t) /\ t \notin DefinedNames \cup FunctionNames}} :
           u \in UnitIds}

\* the errors the code has a check for
DetectableErrors == UnresolvedInUnit \cup UnresolvedInWorld

\* what the link that ended reported: the one name of its todo!(), or nothing
Reported == IF pc = "panicked" THEN {panic.name} ELSE {}

\* C2: a link of an input with errors returns Err with all the errors of
\* all units and phases, and defines nothing.
C2_FailClosedBatch ==
    (Finished /\ DetectableErrors # {}) =>
        /\ link_result = "Err"
        /\ Reported = {e.name : e \in DetectableErrors}
        /\ runtime = Runtime_new

\* C3: a bare reference that is no primordial, no alias and no local
\* definition makes link return an unresolved-name error for it.
C3_UnresolvedNameInUnit ==
    (Finished /\ UnresolvedInUnit # {}) =>
        /\ link_result = "Err"
        /\ \A e \in UnresolvedInUnit : e.name \in Reported

\* the names defined twice: by two definitions, or by a function and a definition
DuplicateDefinitions ==
    {n \in DefinedNames :
        \E u, v \in UnitIds : \E j \in DOMAIN input[u].types, k \in DOMAIN input[v].types :
            /\ <<u, j>> # <<v, k>>
            /\ unit_types(input[u])[j] = n
            /\ unit_types(input[v])[k] = n}

FunctionTypeCollisions == DefinedNames \cap FunctionNames

\* C4: a name defined twice makes link report a collision and build no
\* world, and after a successful link no name is in both dictionaries.
C4_Collision ==
    /\ (Finished /\ DuplicateDefinitions \cup FunctionTypeCollisions # {}) =>
           link_result = "Err" /\ runtime = Runtime_new
    /\ pc = "done" => (DOMAIN runtime.types) \cap (DOMAIN runtime.functions) = {}

\* the bare references of the input are all primordial names, and there is one
OnlyPrimordialRefs ==
    /\ \E u \in UnitIds : RefPlaces(input[u]) # {}
    /\ \A u \in UnitIds : \A p \in RefPlaces(input[u]) :
          ~is_qualified(RefAt(input, u, p)) /\ RefAt(input, u, p).name \in Primordials

\* C5: a unit whose only references are bare primordial names links, and
\* the references stay bare.
C5_Primordials ==
    (Finished /\ OnlyPrimordialRefs /\ \A u \in UnitIds : Aliases(input[u]) = {}) =>
        /\ pc = "done"
        /\ units = input

\* the aliases a unit uses twice
DuplicateImports(unit) ==
    {unit.uses[k].as_name : k \in {m \in DOMAIN unit.uses :
        \E n \in DOMAIN unit.uses : n # m /\ unit.uses[n].as_name = unit.uses[m].as_name}}

\* C6: two uses of one alias in a unit make link return a duplicate-import error.
C6_DuplicateImport ==
    (Finished /\ \E u \in UnitIds : DuplicateImports(input[u]) # {}) => link_result = "Err"

\* the places of a unit where a bare name is both an alias and a local definition
ShadowedPlaces(unit) ==
    {p \in RefPlaces(unit) :
        LET r == referenced_types(unit.types[p[1]])[p[2]]
        IN ~is_qualified(r) /\ r.name \in Aliases(unit) \cap LocalNames(unit)}

\* C7: in a unit of package P where a use and a local definition share the
\* bare name T, the table maps T to P::T and every bare reference to T
\* becomes P::T.
C7_Shadowing ==
    /\ \A u \in 1..QualifiedCount : \A p \in ShadowedPlaces(input[u]) :
          RefAt(units, u, p) =
              type_name(PackagePath_from(input[u].source), RefAt(input, u, p).name)
    /\ TableOf > 0 =>
          \A n \in Aliases(input[TableOf]) \cap LocalNames(input[TableOf]) :
              visible_types[n] = Some(type_name(PackagePath_from(input[TableOf].source), n))

\* phase 1 has qualified a unit with a use of T, a definition T and a bare
\* reference to T
C7_Witness ==
    \E u \in 1..QualifiedCount :
        /\ ShadowedPlaces(input[u]) # {}
        /\ TableOf = u
        /\ \E p \in ShadowedPlaces(input[u]) :
              RefAt(units, u, p) # LastUse(input[u], RefAt(input, u, p).name).type_name

\* C8: a second link of the same units and packages ends as the first did,
\* with equal dictionaries, whatever the order the packages came in.
C8_Idempotence ==
    Finished =>
        \A o \in prev :
            /\ o.result = pc
            /\ pc = "done" =>
                  /\ o.runtime.types = runtime.types
                  /\ o.runtime.functions = runtime.functions

\* two successful links of an input with two packages, which came in two orders
C8_Witness ==
    /\ pc = "done"
    /\ \E o \in prev : o.order # pkgOrder /\ o.result = "done"
    /\ Cardinality(DOMAIN runtime.functions) > 1
    /\ DOMAIN runtime.types # {}

\* every reference names a definition of a unit or a function of a package
Resolves(unit, r) ==
    IF is_qualified(r) THEN r \in DefinedNames \cup FunctionNames
    ELSE \/ r.name \in LocalNames(unit)
         \/ r.name \in Aliases(unit)
            /\ LastUse(unit, r.name).type_name \in DefinedNames \cup FunctionNames

AllResolve ==
    \A u \in UnitIds : \A p \in RefPlaces(input[u]) : Resolves(input[u], RefAt(input, u, p))

\* C10: an input all of whose references name a definition or a function
\* links in whatever order the units and definitions come, and the census
\* holds every unit's names when the first inter-unit check is made.
C10_OrderIndependent ==
    /\ AllResolve => pc # "panicked"
    /\ pc \in {"check", "define", "define_functions", "done"} =>
          \A n \in DefinedNames \cup FunctionNames : world_contains(world, n)

\* a successful link of two units that refer to each other, the first to a
\* definition of the second
C10_Witness ==
    /\ pc = "done"
    /\ AllResolve
    /\ \E u, v \in UnitIds :
          /\ u < v
          /\ \E p \in RefPlaces(input[u]) :
                /\ RefAt(units, u, p) \in Range(unit_types(input[v]))
                /\ RefAt(units, u, p) \notin Range(unit_types(input[u]))
          /\ \E p \in RefPlaces(input[v]) :
                /\ RefAt(units, v, p) \in Range(unit_types(input[u]))
                /\ RefAt(units, v, p) \notin Range(unit_types(input[v]))

---------------------------------------------------------------------------
(* World construction.                                                     *)

\* the definitions of the input, and the functions of the packages
DefinitionPairs == UNION {{<<u, j>> : j \in DOMAIN input[u].types} : u \in UnitIds}

FunctionPairs == UNION {{<<path, k>> : k \in DOMAIN packages[path]} : path \in DOMAIN packages}

DefineCalls(u, j) ==
    {k \in DOMAIN calls : calls[k].op = "define" /\ calls[k].unit = u /\ calls[k].defn = j}

DefineFunctionCalls(path, n) ==
    {k \in DOMAIN calls :
        calls[k].op = "define_function" /\ calls[k].package = path /\ calls[k].index = n}

\* every check of phase 1 and of phase 3 has passed for every unit
AllChecksPassed ==
    /\ \A u \in UnitIds : unknown_places(input[u], build_visible_types(input[u])) = {}
    /\ QualifiedCount = Len(units)
    /\ \A u \in UnitIds : missing_places(units[u], world) = {}

\* C11: after a successful link define has been called once for every
\* definition of every unit, under P::name, and define_function once for
\* every function of every package, under P::f; nothing else is defined,
\* and nothing is defined before every check of phases 1 and 3 has passed.
C11_ExactConstruction ==
    /\ pc = "done" =>
          /\ \A d \in DefinitionPairs :
                /\ Cardinality(DefineCalls(d[1], d[2])) = 1
                /\ \A k \in DefineCalls(d[1], d[2]) :
                      calls[k].name = [pkg |-> input[d[1]].source,
                                       name |-> input[d[1]].types[d[2]].name]
          /\ \A f \in FunctionPairs :
                /\ Cardinality(DefineFunctionCalls(f[1], f[2])) = 1
                /\ \A k \in DefineFunctionCalls(f[1], f[2]) :
                      calls[k].name = [pkg |-> f[1], name |-> packages[f[1]][f[2]]]
          /\ Len(calls) = Cardinality(DefinitionPairs) + Cardinality(FunctionPairs)
          /\ DOMAIN runtime.types = DefinedNames
          /\ DOMAIN runtime.functions = FunctionNames
    /\ calls # <<>> => AllChecksPassed /\ pc \in {"define", "define_functions", "done"}
    /\ runtime # Runtime_new => calls # <<>>

\* a successful link of two units and two packages, all of them defined
C11_Witness ==
    /\ pc = "done"
    /\ Len(input) > 1
    /\ Cardinality(DOMAIN packages) > 1
    /\ \E k, m \in DOMAIN calls :
          /\ calls[k].op = "define" /\ calls[k].unit = 2
          /\ calls[m].op = "define_function"
          /\ k < m

---------------------------------------------------------------------------
(* The test harness: TestPlan::new, TestPlan::run and TestCase::run.        *)

ExpectationFiles == {"output.json", "output.identity", "output.any", "output.none"}

\* JSON documents: numbers, written with or without a fraction
JsonDocs == {[int |-> 1, frac |-> FALSE], [int |-> 1, frac |-> TRUE],
             [int |-> 2, frac |-> FALSE]}

NoDoc == [int |-> 0, frac |-> FALSE]

\* a file: missing, unreadable, not JSON, or a JSON document
FileStates == {[state |-> st, doc |-> NoDoc] : st \in {"missing", "unreadable", "invalid"}}
              \cup {[state |-> "ok", doc |-> d] : d \in JsonDocs}

\* RuntimeValue::from(serde_json::Value): the shape of a number decides
RuntimeValue_from(doc) ==
    [tag |-> IF doc.frac THEN "Decimal" ELSE "Integer", num |-> doc.int]

\* RuntimeValue ==: an Integer and a Decimal are equal when they denote the same number
RuntimeValue_eq(l, r) == l.num = r.num

NoValue == [tag |-> "Integer", num |-> 0]

\* Output
Output_None == [kind |-> "None", val |-> NoValue]

Output_Identity == [kind |-> "Identity", val |-> NoValue]

Output_Transform(v) == [kind |-> "Transform", val |-> v]

Outputs == {Output_None, Output_Identity}
           \cup {Output_Transform(RuntimeValue_from(d)) : d \in {[int |-> 1, frac |-> FALSE],
                                                                 [int |-> 2, frac |-> TRUE]}}

\* what world.evaluate returns for a test's pattern and input
Evaluations == {[err |-> TRUE, output |-> Output_None]}
               \cup {[err |-> FALSE, output |-> o] : o \in Outputs}

\* lines 118-132: the first of the four files that exists decides
expected_of(files) ==
    IF "output.json" \in files THEN "Transform"
    ELSE IF "output.identity" \in files THEN "Identity"
    ELSE IF "output.any" \in files THEN "Anything"
    ELSE IF "output.none" \in files THEN "None"
    ELSE "Pending"

\* lines 241-258: the expected file is read and compared
transform_verdict(val, output_json) ==
    IF /\ output_json.state = "ok"
       /\ RuntimeValue_eq(val, RuntimeValue_from(output_json.doc))
    THEN "Passed" ELSE "Failed"

\* a plausible slip: the arm for a Transform where anything is expected is missing
verdict_without_arm(output, expected, output_json) ==
    CASE output.kind = "None" /\ expected = "None" -> "Passed"
      [] output.kind = "Identity" /\ expected = "Identity" -> "Passed"
      [] output.kind = "Identity" /\ expected = "Anything" -> "Passed"
      [] output.kind = "Transform" /\ expected = "Transform" ->
            transform_verdict(output.val, output_json)
      [] OTHER -> "Failed"

\* lines 230-266: match (result.raw_output(), &self.expected)
verdict(output, expected, output_json) ==
    CASE output.kind = "None" /\ expected = "None" -> "Passed"
      [] output.kind = "Identity" /\ expected = "Identity" -> "Passed"
      [] output.kind = "Identity" /\ expected = "Anything" -> "Passed"
      [] output.kind = "Transform" /\ expected = "Transform" ->
            transform_verdict(output.val, output_json)
      [] output.kind = "Transform" /\ expected = "Anything" -> "Passed"
      [] OTHER -> "Failed"

\* lines 213-284: the result of a test, and whether world.evaluate was called
TestCase_run(t) ==
    IF t.expected = "Pending" THEN [t EXCEPT !.result = "Pending"]
    ELSE IF t.input.state \in {"missing", "unreadable"}
    THEN [t EXCEPT !.result = "Error", !.error = "ReadingInput"]
    ELSE IF t.input.state = "invalid"
    THEN [t EXCEPT !.result = "Error", !.error = "Deserialization"]
    ELSE IF t.eval.err
    THEN [t EXCEPT !.result = "Error", !.error = "Runtime", !.evaluated = TRUE]
    ELSE [t EXCEPT !.result = verdict(t.eval.output, t.expected, t.output_json),
                   !.evaluated = TRUE]

\* lines 134-143: a test as TestPlan::new leaves it, with what is on disk
TestCase_new(files, input_json, output_json, eval) ==
    [files |-> files, input |-> input_json, output_json |-> output_json, eval |-> eval,
     expected |-> expected_of(files), result |-> "unset", error |-> "none",
     evaluated |-> FALSE]

\* the test directories: output.json has a content exactly when it exists
TestCases ==
    {TestCase_new(files, input_json, output_json, eval) :
        files \in SUBSET ExpectationFiles,
        input_json \in FileStates \ {[state |-> "ok", doc |-> d] : d \in JsonDocs \ {[int |-> 1, frac |-> FALSE]}},
        output_json \in FileStates,
        eval \in Evaluations}

OnDisk(t) == ("output.json" \in t.files) = (t.output_json.state # "missing")

\* TestPlan::new over one test directory; no link is under way
TestInit ==
    /\ tests \in {<<t>> : t \in {c \in TestCases : OnDisk(c)}}
    /\ next = 1
    /\ input = <<>>
    /\ packages = EmptyMap
    /\ units = <<>>
    /\ pkgOrder = <<>>
    /\ pc = "idle"
    /\ i = 1
    /\ visible_types = EmptyMap
    /\ world = <<>>
    /\ runtime = Runtime_new
    /\ panic = NoPanic
    /\ prev = {}
    /\ calls = <<>>
    /\ http = NoRequest

\* lines 162-166: one iteration of the loop of TestPlan::run
TestPlan_run ==
    /\ next <= Len(tests)
    /\ tests' = [tests EXCEPT ![next] = TestCase_run(@)]
    /\ next' = next + 1
    /\ UNCHANGED linkVars
    /\ UNCHANGED httpVars

TestNext == TestPlan_run

TestSpec == TestInit /\ [][TestNext]_vars

\* the evaluation meets what the one expectation file of the test asks for
Meets(t) ==
    LET out == t.eval.output
    IN \/ /\ t.files = {"output.json"}
          /\ out.kind = "Transform"
          /\ t.output_json.state = "ok"
          /\ RuntimeValue_eq(out.val, RuntimeValue_from(t.output_json.doc))
       \/ t.files = {"output.identity"} /\ out.kind = "Identity"
       \/ t.files = {"output.any"} /\ out.kind \in {"Identity", "Transform"}
       \/ t.files = {"output.none"} /\ out.kind = "None"

Evaluates(t) == t.input.state = "ok" /\ ~t.eval.err

\* C9: a test with none of the four files is Pending and not evaluated; a
\* test with one of them is Passed exactly when the evaluation meets it,
\* Error when the input cannot be read or parsed or the evaluation fails,
\* and Failed otherwise.
C9_Verdict ==
    \A k \in 1..(next - 1) :
        LET t == tests[k]
        IN /\ t.files = {} => t.result = "Pending" /\ ~t.evaluated
           /\ Cardinality(t.files) = 1 =>
                 /\ t.result \in {"Passed", "Failed", "Error"}
                 /\ t.result = "Passed" <=> (Evaluates(t) /\ Meets(t))
                 /\ t.result = "Error" <=> ~Evaluates(t)
                 /\ t.evaluated <=> t.input.state = "ok"

\* a test that expects anything has run on a Transform and passed
C9_Witness ==
    \E k \in 1..(next - 1) :
        /\ tests[k].files = {"output.any"}
        /\ tests[k].eval.output.kind = "Transform"
        /\ tests[k].evaluated
        /\ tests[k].result = "Passed"

---------------------------------------------------------------------------
(* The HTTP server: the evaluate handler.                                  *)

MaxPathLen == 3
MaxChunks == 2

StatusOk == 200
StatusBadRequest == 400
StatusNotAcceptable == 406
StatusInternalServerError == 500

\* the characters after the leading "/" of a request path
PathChars == {"/", "a"}

\* req.path(): it starts with "/"
Paths == {<<"/">> \o rest : rest \in SeqsUpTo(PathChars, MaxPathLen)}

\* an item of the Payload stream: Ok(bytes) or Err
Chunks == {[ok |-> TRUE, bytes |-> <<"1">>], [ok |-> TRUE, bytes |-> <<"x">>],
           [ok |-> FALSE, bytes |-> <<>>]}

\* what runtime.evaluate returns for the path and the value
EvaluateResults == {"matches", "no_match", "error"}

\* serde_json::from_slice: over the bytes "1" and "x" the JSON documents are the numbers 1, 11, ...
from_slice_ok(content) == content # <<>> /\ \A k \in DOMAIN content : content[k] = "1"

\* a plausible slip: trim_start_matches('/') removes every leading "/"
RECURSIVE trim_start_matches(_)
trim_start_matches(path) ==
    IF path # <<>> /\ path[1] = "/" THEN trim_start_matches(SubSeq(path, 2, Len(path)))
    ELSE path

\* str::strip_prefix("/").unwrap()
strip_prefix(path) == SubSeq(path, 2, Len(path))

\* str::replace("/", "::")
RECURSIVE replace(_)
replace(str) ==
    IF str = <<>> THEN <<>>
    ELSE (IF str[1] = "/" THEN <<":", ":">> ELSE <<str[1]>>) \o replace(SubSeq(str, 2, Len(str)))

\* line 35: the pattern the request path names
pattern_of(path) == replace(strip_prefix(path))

\* lines 39-48: the response for what evaluate returned
status_of(result) ==
    IF result = "error" THEN StatusInternalServerError
    ELSE IF result = "matches" THEN StatusOk
    ELSE StatusNotAcceptable

\* a request as the server hands it to the handler
Request(method, path, chunks, result) ==
    [method |-> method, path |-> path, chunks |-> chunks, result |-> result,
     at |-> "start", read |-> 0, content |-> <<>>, status |-> 0,
     evaluated |-> FALSE, pattern |-> <<>>, value |-> <<>>]

HttpInit ==
    /\ http \in {Request(method, path, chunks, result) :
                    method \in {"GET", "POST", "PUT"}, path \in Paths,
                    chunks \in SeqsUpTo(Chunks, MaxChunks), result \in EvaluateResults}
    /\ tests = NoTests
    /\ next = 0
    /\ input = <<>>
    /\ packages = EmptyMap
    /\ units = <<>>
    /\ pkgOrder = <<>>
    /\ pc = "idle"
    /\ i = 1
    /\ visible_types = EmptyMap
    /\ world = <<>>
    /\ runtime = Runtime_new
    /\ panic = NoPanic
    /\ prev = {}
    /\ calls = <<>>

\* lines 21-23: a request that is no POST
Evaluate_NotPost ==
    /\ http.at = "start"
    /\ http.method # "POST"
    /\ http' = [http EXCEPT !.status = StatusNotAcceptable, !.at = "done"]
    /\ UNCHANGED linkVars
    /\ UNCHANGED testVars

\* lines 21-25: a POST, its content still empty
Evaluate_Post ==
    /\ http.at = "start"
    /\ http.method = "POST"
    /\ http' = [http EXCEPT !.at = "reading"]
    /\ UNCHANGED linkVars
    /\ UNCHANGED testVars

\* lines 26-28: the stream yields Some(Ok(bit))
Evaluate_ReadChunk ==
    /\ http.at = "reading"
    /\ http.read < Len(http.chunks)
    /\ http.chunks[http.read + 1].ok
    /\ http' = [http EXCEPT !.read = @ + 1,
                            !.content = @ \o http.chunks[http.read + 1].bytes]
    /\ UNCHANGED linkVars
    /\ UNCHANGED testVars

\* line 26: the stream yields None or Some(Err(_)), which ends the loop
Evaluate_EndOfBody ==
    /\ http.at = "reading"
    /\ IF http.read < Len(http.chunks) THEN ~http.chunks[http.read + 1].ok ELSE TRUE
    /\ http' = [http EXCEPT !.at = "parsed"]
    /\ UNCHANGED linkVars
    /\ UNCHANGED testVars

\* lines 31-50: the content is no JSON
Evaluate_BadRequest ==
    /\ http.at = "parsed"
    /\ ~from_slice_ok(http.content)
    /\ http' = [http EXCEPT !.status = StatusBadRequest, !.at = "done"]
    /\ UNCHANGED linkVars
    /\ UNCHANGED testVars

\* lines 31-48: the content is JSON; the path's pattern is evaluated
Evaluate_Run ==
    /\ http.at = "parsed"
    /\ from_slice_ok(http.content)
    /\ http' = [http EXCEPT !.evaluated = TRUE,
                            !.pattern = pattern_of(http.path),
                            !.value = http.content,
                            !.status = status_of(http.result),
                            !.at = "done"]
    /\ UNCHANGED linkVars
    /\ UNCHANGED testVars

HttpNext ==
    \/ Evaluate_NotPost
    \/ Evaluate_Post
    \/ Evaluate_ReadChunk
    \/ Evaluate_EndOfBody
    \/ Evaluate_BadRequest
    \/ Evaluate_Run

HttpSpec == HttpInit /\ [][HttpNext]_vars

\* the chunks the stream yields before it fails or ends
Received(chunks) ==
    LET stop == IF \E k \in DOMAIN chunks : ~chunks[k].ok
                THEN CHOOSE k \in DOMAIN chunks :
                        ~chunks[k].ok /\ \A m \in 1..(k - 1) : chunks[m].ok
                ELSE Len(chunks) + 1
    IN SubSeq(chunks, 1, stop - 1)

\* the body of a request: the bytes of the chunks received
RECURSIVE Body(_)
Body(chunks) ==
    IF chunks = <<>> THEN <<>>
    ELSE Body(SubSeq(chunks, 1, Len(chunks) - 1)) \o chunks[Len(chunks)].bytes

\* the name the path stands for: no leading "/", "::" for every other "/"
RECURSIVE Joined(_, _)
Joined(path, k) ==
    IF k > Len(path) THEN <<>>
    ELSE IF path[k] = "/" THEN <<":", ":">> \o Joined(path, k + 1)
    ELSE <<path[k]>> \o Joined(path, k + 1)

\* C12: every request gets one status: 406 when it is no POST; 400, and no
\* evaluation, when it is a POST whose body is no JSON; else the pattern the
\* path names is evaluated and the status is 200 iff the result matches,
\* 406 iff it does not, 500 iff the evaluation failed.
C12_EvaluateStatus ==
    /\ http.at # "done" => http.status = 0 /\ ~http.evaluated
    /\ http.at = "done" =>
          LET body == Body(Received(http.chunks))
          IN /\ http.status \in {StatusOk, StatusBadRequest, StatusNotAcceptable,
                                  StatusInternalServerError}
             /\ http.method # "POST" => http.status = StatusNotAcceptable /\ ~http.evaluated
             /\ (http.method = "POST" /\ ~from_slice_ok(body)) =>
                   http.status = StatusBadRequest /\ ~http.evaluated
             /\ (http.method = "POST" /\ from_slice_ok(body)) =>
                   /\ http.evaluated
                   /\ http.pattern = Joined(http.path, 2)
                   /\ http.value = body
                   /\ http.status = StatusOk <=> http.result = "matches"
                   /\ http.status = StatusNotAcceptable <=> http.result = "no_match"
                   /\ http.status = StatusInternalServerError <=> http.result = "error"

\* a POST of a JSON body in two chunks to a path of several segments, answered 200
C12_Witness ==
    /\ http.at = "done"
    /\ http.method = "POST"
    /\ http.read = 2
    /\ \E k \in 2..Len(http.path) : http.path[k] = "/"
    /\ http.evaluated
    /\ http.status = StatusOk

---------------------------------------------------------------------------
(* The summary of a test plan: TestPlan::run and the counts Test::run prints. *)

MaxTests == 2

\* the test directories of a plan: no expectation file, output.any or output.none
PlanCases ==
    {TestCase_new(files, input_json, [state |-> "missing", doc |-> NoDoc], eval) :
        files \in {{}, {"output.any"}, {"output.none"}},
        input_json \in {[state |-> "missing", doc |-> NoDoc],
                        [state |-> "ok", doc |-> [int |-> 1, frac |-> FALSE]]},
        eval \in {e \in Evaluations : e.output.kind # "Transform"}}

\* TestPlan::new over several test directories; no link or request is under way
PlanInit ==
    /\ tests \in SeqsUpTo(PlanCases, MaxTests)
    /\ next = 1
    /\ input = <<>>
    /\ packages = EmptyMap
    /\ units = <<>>
    /\ pkgOrder = <<>>
    /\ pc = "idle"
    /\ i = 1
    /\ visible_types = EmptyMap
    /\ world = <<>>
    /\ runtime = Runtime_new
    /\ panic = NoPanic
    /\ prev = {}
    /\ calls = <<>>
    /\ http = NoRequest

PlanSpec == PlanInit /\ [][TestNext]_vars

\* lines 168-172: any(|e| matches!(e.result, Some(Error(_) | Failed)))
had_failures(ts) == \E k \in DOMAIN ts : ts[k].result \in {"Error", "Failed"}

\* iter().flat_map(|e| Some(matches!(e.result, Some(r)))): the Some of every
\* test is flattened to its bool, so there is one item for each test
flat_map_matches(ts, r) == [k \in DOMAIN ts |-> ts[k].result = r]

\* Iterator::count: the number of items, whatever they are
count(items) == Len(items)

\* lines 174-179
passed(ts) == count(flat_map_matches(ts, "Passed"))

\* lines 181-186
pending(ts) == count(flat_map_matches(ts, "Pending"))

\* lines 188-193
error(ts) == count(flat_map_matches(ts, "Error"))

\* lines 195-200
failed(ts) == count(flat_map_matches(ts, "Failed"))

\* TestPlan::run has returned
PlanRan == next > Len(tests)

WithResult(ts, r) == {k \in DOMAIN ts : ts[k].result = r}

\* C13: after TestPlan::run every test has one of the four results, the
\* four counts add up to the number of tests, each count is the number of
\* tests with that result, and had_failures holds iff a test is Failed or
\* Error.
C13_Summary ==
    PlanRan =>
        /\ \A k \in DOMAIN tests : tests[k].result \in {"Passed", "Failed", "Pending", "Error"}
        /\ passed(tests) + failed(tests) + pending(tests) + error(tests) = Len(tests)
        /\ passed(tests) = Cardinality(WithResult(tests, "Passed"))
        /\ failed(tests) = Cardinality(WithResult(tests, "Failed"))
        /\ pending(tests) = Cardinality(WithResult(tests, "Pending"))
        /\ error(tests) = Cardinality(WithResult(tests, "Error"))
        /\ had_failures(tests) <=>
              WithResult(tests, "Failed") \cup WithResult(tests, "Error") # {}

====
